---- MODULE Spec2Model ----
(***************************************************************************)
(* Model of the tile calculator's bill workflow: the session cart held in  *)
(* the Flask session (routes/calculator.py), and the bill store            *)
(* (models/calculation_bill.py, models/calculation_bill_item.py) over the  *)
(* tables of migrations/add_calculator_bills.py.                           *)
(*                                                                         *)
(* Every model method opens its own connection and commits, so each is one *)
(* atomic step on the store; a request handler that calls several of them  *)
(* is a sequence of steps that other requests may interleave with.  The    *)
(* session is the default client-side one: a request works on the copy of  *)
(* the cart that came with it and the response carries the copy back when  *)
(* the handler marked it modified.  Prices are whole currency units.       *)
(*                                                                         *)
(* Three specifications share the state of the workflow.  Spec is the bill *)
(* workflow: a commit runs concurrently with views and deletions of single *)
(* bills, over carts of every payload.  SpecPurge is retention: the clock  *)
(* runs and a commit runs concurrently with deletions and purges, over     *)
(* carts of one well-formed payload.  In both the client sends a cart      *)
(* request (add, remove, clear) only when nothing else is in flight, and a *)
(* commit only when no other commit is.  SpecCart is the cart alone: add,  *)
(* remove and clear requests of the one session overlap freely.  SpecItems *)
(* adds the store's deletions of line items to commits, SpecSaves lets two *)
(* commits of the one session overlap, and SpecLines commits carts of      *)
(* payloads that carry the fields of a calculation result.                 *)
(*                                                                         *)
(* SpecCalc is the calculator (models/calculator.py) and the two routes    *)
(* that assemble a bill line from its result: a behaviour starts from one  *)
(* call with its arguments and runs it.  The calculator's numbers are      *)
(* exact fractions; the rounding error of binary floating point is not     *)
(* modelled.                                                               *)
(***************************************************************************)
EXTENDS Integers, Sequences, FiniteSets, TLC

\* ---------------------------------------------------------------- bounds
MaxCart  == 2      \* longest cart a request is sent with an add for
MaxBills == 1      \* bill rows ever created in the workflow (Spec, SpecLines)
MaxKept  == 2      \* bill rows ever created in the retention runs (SpecPurge)
MaxTicks == 2      \* clock advances (SpecPurge)
MaxSaves == 2      \* commits sent over the carts of the overlapping commits (SpecSaves)
MaxQuarters == 6   \* sizes of the calculations run up to this many quarter feet (SpecCalc)

\* ---------------------------------------------------------------- constants
RetentionDays == 30            \* delete_old_bills: delete_older_than_days(30)
None == -1                     \* Python None / SQL NULL for a numeric field

Requests == {1, 2}             \* requests in flight within the one session
TickSteps == {RetentionDays}   \* the clock advances a retention period at a time

\* Payloads a client posts to add_to_bill (request.json is stored as is).
\* tile_name = FALSE: the payload has no tile_name, a NOT NULL column.
Payloads ==
    { [boxes_needed |-> 7,  total_price |-> 700,  tile_name |-> TRUE],
      [boxes_needed |-> 10, total_price |-> None, tile_name |-> TRUE],
      [boxes_needed |-> 3,  total_price |-> 0,    tile_name |-> FALSE] }

\* the payloads of the retention runs
KeptPayloads == {c \in Payloads : c.total_price = 700}

\* Payloads with the fields of a calculation result: one as calculate_floor
\* answers it (104 sq ft at 16 per box, 100 a box), and ones a client made
\* up: a box count that is not the ceiling, a coverage of 0, and a total
\* that is not price * boxes.
LinePayloads ==
    {[boxes_needed |-> l[1], total_price |-> l[2], tile_name |-> TRUE,
      area_calculated |-> l[3], coverage_per_box |-> l[4], price_per_box |-> l[5]] :
        l \in {<<7, 700, 104, 16, 100>>, <<3, 300, 104, 16, 100>>,
               <<7, None, 104, 0, None>>, <<7, 5, 104, 16, 100>>}}

NoItem == [boxes_needed |-> 0, total_price |-> None, tile_name |-> FALSE]
NoRow  == [id |-> 0, total_boxes |-> 0, total_price |-> 0, created_at |-> 0]

VARIABLES
    cookie,     \* the session the client holds: [present, items]
    req,        \* per request: handler position, its session copy, locals
    bills,      \* calculation_bills: set of rows
    items,      \* calculation_bill_items: set of rows
    bill_seq,   \* AUTOINCREMENT counter of calculation_bills
    item_seq,   \* AUTOINCREMENT counter of calculation_bill_items
    now,        \* the clock, in days
    resp,       \* the response the client last got, until its next request
    calc        \* the calculation: the call, what it returned, and the
                \* calculator's preset tables while a calculation runs

vars == <<cookie, req, bills, items, bill_seq, item_seq, now, resp, calc>>

\* ---------------------------------------------------------------- session
NoCart == [present |-> FALSE, items |-> <<>>]

\* session.get('current_bill', [])
session_get(sess) == IF sess.present THEN sess.items ELSE <<>>

\* session['current_bill'] = cart
session_set(cart) == [present |-> TRUE, items |-> cart]

\* list.pop(index) for 0 <= index < len
pop(cart, index) ==
    [k \in 1..(Len(cart) - 1) |-> IF k <= index THEN cart[k] ELSE cart[k + 1]]

\* ---------------------------------------------------------------- store
BillIds == {b.id : b \in bills}

ItemsOf(bill_id) == {it \in items : it.bill_id = bill_id}

\* CalculationBill.create: INSERT ... VALUES (?, ?, ?, 0, 0), created_at DEFAULT now
CalculationBill_create(rows, id, t) ==
    rows \cup {[id |-> id, total_boxes |-> 0, total_price |-> 0, created_at |-> t]}

\* CalculationBill.get_by_id
get_by_id(bill_id) ==
    IF bill_id \in BillIds THEN CHOOSE b \in bills : b.id = bill_id ELSE NoRow

\* CalculationBillItem.get_by_bill_id
get_by_bill_id(bill_id) == ItemsOf(bill_id)

\* The constraints of calculation_bill_items an INSERT can violate:
\* NOT NULL tile_name, and the foreign key on bill_id (PRAGMA foreign_keys = ON).
InsertRaises(rows, bill_id, data) ==
    \/ ~data.tile_name
    \/ bill_id \notin {b.id : b \in rows}

\* calculation_data.get(key): None for a key the payload does not have
data_get(data, key) == IF key \in DOMAIN data THEN data[key] ELSE None

\* CalculationBillItem.create, when the INSERT is accepted: the columns are
\* the payload's values as they came
CalculationBillItem_create(rows, id, bill_id, data) ==
    rows \cup {[id |-> id, bill_id |-> bill_id,
                boxes_needed |-> data.boxes_needed,
                total_price |-> data.total_price,
                area_calculated |-> data_get(data, "area_calculated"),
                coverage_per_box |-> data_get(data, "coverage_per_box"),
                price_per_box |-> data_get(data, "price_per_box")]}

\* CalculationBill.update_totals: UPDATE ... WHERE id = ?
update_totals(rows, bill_id, total_boxes, total_price) ==
    {IF b.id = bill_id
        THEN [b EXCEPT !.total_boxes = total_boxes, !.total_price = total_price]
        ELSE b : b \in rows}

\* no cascade
Cascade_none(rows, deleted) == rows

\* ON DELETE CASCADE of calculation_bill_items.bill_id
Cascade(rows, deleted) == {it \in rows : it.bill_id \notin deleted}

\* CalculationBill.delete: the ids its DELETE removes
delete(rows, bill_id) == {b.id : b \in {x \in rows : x.id = bill_id}}

\* <= for <
delete_older_than_days_inclusive(rows, t, days) ==
    {b.id : b \in {x \in rows : x.created_at <= t - days}}

\* CalculationBill.delete_older_than_days: the ids its DELETE removes
delete_older_than_days(rows, t, days) ==
    {b.id : b \in {x \in rows : x.created_at < t - days}}

\* ---------------------------------------------------------------- numbers
\* A calculator number (Python int or float) is the exact fraction n/d, d > 0.
Q(n, d) == [n |-> n, d |-> d]

\* Python None where a calculator number is expected
Missing == [n |-> 0, d |-> 0]

\* the truth value of a number or None: None and zero are false
IsTruthy(x) == x # Missing /\ x.n # 0

Times(x, y) == Q(x.n * y.n, x.d * y.d)
Plus(x, y)  == Q(x.n * y.d + y.n * x.d, x.d * y.d)
Minus(x, y) == Q(x.n * y.d - y.n * x.d, x.d * y.d)

\* x / y for y # 0
Over(x, y) ==
    IF y.n > 0 THEN Q(x.n * y.d, x.d * y.n) ELSE Q(-(x.n * y.d), x.d * (-y.n))

\* rounds to the nearest integer
round_up_nearest(value) == (2 * value.n + value.d) \div (2 * value.d)

\* round_up: math.ceil
round_up(value) == -((-value.n) \div value.d)

\* round(x, 2): to the nearest hundredth, a tie to the even one
round2(x) ==
    LET s     == 100 * x.n
        below == s \div x.d
        rest  == s - below * x.d
    IN  Q(IF 2 * rest < x.d THEN below
          ELSE IF 2 * rest > x.d THEN below + 1
          ELSE IF below % 2 = 0 THEN below ELSE below + 1, 100)

\* ---------------------------------------------------------------- calculator
FLOOR_TILES ==
    "1x1" :> [tiles_per_box |-> 10, coverage_per_box |-> 10] @@
    "2x2" :> [tiles_per_box |-> 4,  coverage_per_box |-> 16] @@
    "4x2" :> [tiles_per_box |-> 2,  coverage_per_box |-> 16]

WALL_TILES ==
    "12x8"  :> [tiles_per_box |-> 12, coverage_per_box |-> 8] @@
    "10x15" :> [tiles_per_box |-> 8,  coverage_per_box |-> 9] @@
    "12x18" :> [tiles_per_box |-> 6,  coverage_per_box |-> 9]

\* TileCalculator.__init__: self.floor_tiles, self.wall_tiles
floor_tiles == calc.floor_tiles
wall_tiles  == calc.wall_tiles

\* ValueError("Either provide a valid tile_size or both tiles_per_box and
\* coverage_per_box")
InvalidTileSpec == [ok |-> FALSE, error |-> "InvalidTileSpec"]

\* ValueError("Width and length must be positive numbers"),
\* ValueError("Width, length, and height must be positive numbers")
InvalidDimension == [ok |-> FALSE, error |-> "InvalidDimension"]

\* the area of one tile rounded, then multiplied
calculate_custom_coverage_per_tile(length, width, unit, tiles_per_box) ==
    Times(round2(IF unit = "inch" THEN Over(Times(length, width), Q(144, 1))
                                  ELSE Times(length, width)),
          tiles_per_box)

calculate_custom_coverage(length, width, unit, tiles_per_box) ==
    LET tile_sq_ft == IF unit = "inch" THEN Over(Times(length, width), Q(144, 1))
                                       ELSE Times(length, width)
        coverage   == Times(tile_sq_ft, tiles_per_box)
    IN  round2(coverage)

\* the preset's two values taken for each other
TileConfig_swapped(tiles, tile_size, tiles_per_box, coverage_per_box) ==
    IF tile_size \in DOMAIN tiles
       THEN [ok |-> TRUE, tile_size |-> tile_size,
             tiles_per_box |-> Q(tiles[tile_size].coverage_per_box, 1),
             coverage_per_box |-> Q(tiles[tile_size].tiles_per_box, 1)]
       ELSE IF IsTruthy(tiles_per_box) /\ IsTruthy(coverage_per_box)
               THEN [ok |-> TRUE, tile_size |-> "custom",
                     tiles_per_box |-> tiles_per_box,
                     coverage_per_box |-> coverage_per_box]
               ELSE InvalidTileSpec

\* the key looked up in both tables, whatever the category
TileConfig_any_table(tiles, tile_size, tiles_per_box, coverage_per_box) ==
    LET both == FLOOR_TILES @@ WALL_TILES
    IN  IF tile_size \in DOMAIN both
           THEN [ok |-> TRUE, tile_size |-> tile_size,
                 tiles_per_box |-> Q(both[tile_size].tiles_per_box, 1),
                 coverage_per_box |-> Q(both[tile_size].coverage_per_box, 1)]
           ELSE IF IsTruthy(tiles_per_box) /\ IsTruthy(coverage_per_box)
                   THEN [ok |-> TRUE, tile_size |-> "custom",
                         tiles_per_box |-> tiles_per_box,
                         coverage_per_box |-> coverage_per_box]
                   ELSE InvalidTileSpec

\* the head of every box-count entry point: the preset when tile_size is a
\* key of the category's table, else the explicit pair when both are truthy
TileConfig(tiles, tile_size, tiles_per_box, coverage_per_box) ==
    IF tile_size \in DOMAIN tiles
       THEN [ok |-> TRUE, tile_size |-> tile_size,
             tiles_per_box |-> Q(tiles[tile_size].tiles_per_box, 1),
             coverage_per_box |-> Q(tiles[tile_size].coverage_per_box, 1)]
       ELSE IF IsTruthy(tiles_per_box) /\ IsTruthy(coverage_per_box)
               THEN [ok |-> TRUE, tile_size |-> "custom",
                     tiles_per_box |-> tiles_per_box,
                     coverage_per_box |-> coverage_per_box]
               ELSE InvalidTileSpec

\* the count taken from the quotient already rounded to 2 decimals
BoxesNeeded_of_rounded(area, coverage_per_box) ==
    round_up(round2(Over(Q(area, 1), coverage_per_box)))

\* boxes_needed = round_up(area / coverage_per_box)
BoxesNeeded(area, coverage_per_box) ==
    round_up(Over(Q(area, 1), coverage_per_box))

\* the quotient reported as it is
BoxesExact_unrounded(area, coverage_per_box) == Over(Q(area, 1), coverage_per_box)

\* the reported boxes_exact: round(boxes_exact, 2)
BoxesExact(area, coverage_per_box) ==
    round2(Over(Q(area, 1), coverage_per_box))

\* the guard left out
BadFloorDimension_unchecked(width, length) == FALSE

\* if width <= 0 or length <= 0
BadFloorDimension(width, length) == width.n <= 0 \/ length.n <= 0

calculate_floor_area(width, length) ==
    IF BadFloorDimension(width, length)
       THEN InvalidDimension
       ELSE [ok |-> TRUE, area |-> round_up(Times(width, length))]

\* the area taken from the perimeter before its rounding
calculate_wall_area_unrounded(width, length, height, deduct_door) ==
    IF width.n <= 0 \/ length.n <= 0 \/ height.n <= 0
       THEN InvalidDimension
       ELSE LET around    == Times(Q(2, 1), Plus(width, length))
                perimeter == IF deduct_door THEN Minus(around, Q(2, 1)) ELSE around
                wall_area == round_up(Times(perimeter, height))
            IN  [ok |-> TRUE, perimeter |-> round_up(perimeter),
                 wall_area |-> wall_area]

calculate_wall_area(width, length, height, deduct_door) ==
    IF width.n <= 0 \/ length.n <= 0 \/ height.n <= 0
       THEN InvalidDimension
       ELSE LET around    == Times(Q(2, 1), Plus(width, length))
                perimeter == round_up(IF deduct_door THEN Minus(around, Q(2, 1))
                                                     ELSE around)
                wall_area == round_up(Times(Q(perimeter, 1), height))
            IN  [ok |-> TRUE, perimeter |-> perimeter, wall_area |-> wall_area]

\* the area rounded to the nearest integer
calculate_floor_boxes_from_area_nearest(area, tile_size, tiles_per_box, coverage_per_box) ==
    LET tile_config == TileConfig(floor_tiles, tile_size, tiles_per_box, coverage_per_box)
    IN  IF ~tile_config.ok THEN tile_config
        ELSE LET rounded == round_up_nearest(area)
             IN  [ok |-> TRUE, category |-> "floor", area |-> rounded,
                  tile_size |-> tile_config.tile_size,
                  tiles_per_box |-> tile_config.tiles_per_box,
                  coverage_per_box |-> tile_config.coverage_per_box,
                  boxes_exact |-> BoxesExact(rounded, tile_config.coverage_per_box),
                  boxes_needed |-> BoxesNeeded(rounded, tile_config.coverage_per_box)]

calculate_floor_boxes_from_area(area, tile_size, tiles_per_box, coverage_per_box) ==
    LET tile_config == TileConfig(floor_tiles, tile_size, tiles_per_box, coverage_per_box)
    IN  IF ~tile_config.ok THEN tile_config
        ELSE LET rounded == round_up(area)
             IN  [ok |-> TRUE, category |-> "floor", area |-> rounded,
                  tile_size |-> tile_config.tile_size,
                  tiles_per_box |-> tile_config.tiles_per_box,
                  coverage_per_box |-> tile_config.coverage_per_box,
                  boxes_exact |-> BoxesExact(rounded, tile_config.coverage_per_box),
                  boxes_needed |-> BoxesNeeded(rounded, tile_config.coverage_per_box)]

\* the dimensions validated before the tile arguments
calculate_floor_boxes_geometry_first(width, length, tile_size, tiles_per_box, coverage_per_box) ==
    LET tile_config == TileConfig(floor_tiles, tile_size, tiles_per_box, coverage_per_box)
        floor_area  == calculate_floor_area(width, length)
    IN  IF ~floor_area.ok THEN floor_area
        ELSE IF ~tile_config.ok THEN tile_config
        ELSE [ok |-> TRUE, category |-> "floor",
              width |-> width, length |-> length, area |-> floor_area.area,
              tile_size |-> tile_config.tile_size,
              tiles_per_box |-> tile_config.tiles_per_box,
              coverage_per_box |-> tile_config.coverage_per_box,
              boxes_exact |-> BoxesExact(floor_area.area, tile_config.coverage_per_box),
              boxes_needed |-> BoxesNeeded(floor_area.area, tile_config.coverage_per_box)]

calculate_floor_boxes(width, length, tile_size, tiles_per_box, coverage_per_box) ==
    LET tile_config == TileConfig(floor_tiles, tile_size, tiles_per_box, coverage_per_box)
        floor_area  == calculate_floor_area(width, length)
    IN  IF ~tile_config.ok THEN tile_config
        ELSE IF ~floor_area.ok THEN floor_area
        ELSE [ok |-> TRUE, category |-> "floor",
              width |-> width, length |-> length, area |-> floor_area.area,
              tile_size |-> tile_config.tile_size,
              tiles_per_box |-> tile_config.tiles_per_box,
              coverage_per_box |-> tile_config.coverage_per_box,
              boxes_exact |-> BoxesExact(floor_area.area, tile_config.coverage_per_box),
              boxes_needed |-> BoxesNeeded(floor_area.area, tile_config.coverage_per_box)]

calculate_wall_boxes_from_area(wall_area, tile_size, deduct_door, tiles_per_box, coverage_per_box) ==
    LET tile_config == TileConfig(wall_tiles, tile_size, tiles_per_box, coverage_per_box)
    IN  IF ~tile_config.ok THEN tile_config
        ELSE LET rounded == round_up(wall_area)
             IN  [ok |-> TRUE, category |-> "wall", wall_area |-> rounded,
                  door_deducted |-> deduct_door,
                  tile_size |-> tile_config.tile_size,
                  tiles_per_box |-> tile_config.tiles_per_box,
                  coverage_per_box |-> tile_config.coverage_per_box,
                  boxes_exact |-> BoxesExact(rounded, tile_config.coverage_per_box),
                  boxes_needed |-> BoxesNeeded(rounded, tile_config.coverage_per_box)]

calculate_wall_boxes(width, length, height, tile_size, deduct_door, tiles_per_box, coverage_per_box) ==
    LET tile_config == TileConfig(wall_tiles, tile_size, tiles_per_box, coverage_per_box)
        wall        == calculate_wall_area(width, length, height, deduct_door)
    IN  IF ~tile_config.ok THEN tile_config
        ELSE IF ~wall.ok THEN wall
        ELSE [ok |-> TRUE, category |-> "wall",
              width |-> width, length |-> length, height |-> height,
              perimeter |-> wall.perimeter, wall_area |-> wall.wall_area,
              door_deducted |-> deduct_door,
              tile_size |-> tile_config.tile_size,
              tiles_per_box |-> tile_config.tiles_per_box,
              coverage_per_box |-> tile_config.coverage_per_box,
              boxes_exact |-> BoxesExact(wall.wall_area, tile_config.coverage_per_box),
              boxes_needed |-> BoxesNeeded(wall.wall_area, tile_config.coverage_per_box)]

\* ---------------------------------------------------------------- calculator routes
DoorArea == 21                 \* calculate_wall: wall_area - 21, the standard door

\* a JSON value of the request: null, a number, or a numeric string
Json(json, v) == [json |-> json, v |-> v]
JsonNull == Json("null", Missing)

\* data.get(key) as a condition: a non-empty string is true, 0 and null false
JsonTruthy(raw) == raw.json = "string" \/ (raw.json = "number" /\ raw.v.n # 0)

\* float(data.get('price_per_box')) if data.get('price_per_box') else None
PricePerBox(raw) == IF JsonTruthy(raw) THEN raw.v ELSE Missing

\* total_price = None; if price_per_box: total_price = price_per_box * boxes_needed
TotalPrice(price_per_box, boxes_needed) ==
    IF IsTruthy(price_per_box) THEN Times(price_per_box, Q(boxes_needed, 1))
                               ELSE Missing

\* the 2 ft of the perimeter taken off the area
DeductDoor_linear(wall_area, deduct_door) ==
    IF deduct_door THEN Minus(wall_area, Q(2, 1)) ELSE wall_area

\* if deduct_door: wall_area = wall_area - 21
DeductDoor(wall_area, deduct_door) ==
    IF deduct_door THEN Minus(wall_area, Q(DoorArea, 1)) ELSE wall_area

\* except ValueError: 400 with the message; except Exception: 500
Failed(status, error) == [ok |-> FALSE, status |-> status, error |-> error]

\* the products table of the inventory: the ids Product.get_by_id finds
ProductIds == {1}

NoProduct == [id |-> 0]

\* Product.get_by_id: the product, or None
Product_get_by_id(product_id) ==
    IF product_id \in ProductIds THEN [id |-> product_id] ELSE NoProduct

\* product.get_tile_details(): Product defines no such method and None has
\* none, so the call raises AttributeError, caught by `except Exception`
get_tile_details(product) ==
    Failed(500, IF product = NoProduct
                   THEN "Calculation error: 'NoneType' object has no attribute 'get_tile_details'"
                   ELSE "Calculation error: 'Product' object has no attribute 'get_tile_details'")

\* the result of the engine with the metadata of the bill line
Assembled(result, data, calculation_type, tile_name, area_calculated, price_per_box) ==
    IF ~result.ok THEN Failed(400, result.error)
    ELSE [ok |-> TRUE, status |-> 200,
          result |-> [source_type |-> data.source_type,
                      tile_name |-> tile_name,
                      product_id |-> None,
                      area_calculated |-> area_calculated,
                      price_per_box |-> price_per_box,
                      total_price |-> TotalPrice(price_per_box, result.boxes_needed),
                      calculation_type |-> calculation_type] @@ result]

\* POST /calculator/calculate-floor.  The inventory source ends at
\* product.get_tile_details().
calculate_floor(data) ==
    LET sqfeet == data.dimension_mode = "sqfeet"
    IN  CASE data.source_type = "predefined" ->
               LET result == IF sqfeet
                                THEN calculate_floor_boxes_from_area(
                                        data.total_sqfeet, data.tile_size, Missing, Missing)
                                ELSE calculate_floor_boxes(
                                        data.room_width, data.room_length,
                                        data.tile_size, Missing, Missing)
               IN  Assembled(result, data, "floor", <<"Predefined", data.tile_size, "ft">>,
                             IF result.ok THEN result.area ELSE 0,
                             PricePerBox(data.price_per_box))
          [] data.source_type = "inventory" ->
               get_tile_details(Product_get_by_id(data.product_id))
          [] data.source_type = "manual" ->
               LET coverage_per_box == calculate_custom_coverage(
                                          data.tile_length, data.tile_width,
                                          data.tile_unit, data.tiles_per_box)
                   result == IF sqfeet
                                THEN calculate_floor_boxes_from_area(
                                        data.total_sqfeet, "None",
                                        data.tiles_per_box, coverage_per_box)
                                ELSE calculate_floor_boxes(
                                        data.room_width, data.room_length, "None",
                                        data.tiles_per_box, coverage_per_box)
               IN  Assembled(result, data, "floor", <<"Manual Entry">>,
                             IF result.ok THEN result.area ELSE 0,
                             PricePerBox(data.price_per_box))
          [] OTHER -> Failed(400, "Invalid source type")

\* POST /calculator/calculate-wall
calculate_wall(data) ==
    LET sqfeet    == data.dimension_mode = "sqfeet"
        wall_area == DeductDoor(data.total_sqfeet, data.deduct_door)
    IN  CASE data.source_type = "predefined" ->
               LET result == IF sqfeet
                                THEN calculate_wall_boxes_from_area(
                                        wall_area, data.tile_size, data.deduct_door,
                                        Missing, Missing)
                                ELSE calculate_wall_boxes(
                                        data.room_width, data.room_length, data.room_height,
                                        data.tile_size, data.deduct_door, Missing, Missing)
               IN  Assembled(result, data, "wall", <<"Predefined", data.tile_size, "inch">>,
                             IF result.ok THEN result.wall_area ELSE 0,
                             PricePerBox(data.price_per_box))
          [] data.source_type = "inventory" ->
               get_tile_details(Product_get_by_id(data.product_id))
          [] data.source_type = "manual" ->
               LET coverage_per_box == calculate_custom_coverage(
                                          data.tile_length, data.tile_width,
                                          data.tile_unit, data.tiles_per_box)
                   result == IF sqfeet
                                THEN calculate_wall_boxes_from_area(
                                        wall_area, "None", data.deduct_door,
                                        data.tiles_per_box, coverage_per_box)
                                ELSE calculate_wall_boxes(
                                        data.room_width, data.room_length, data.room_height,
                                        "None", data.deduct_door,
                                        data.tiles_per_box, coverage_per_box)
               IN  Assembled(result, data, "wall", <<"Manual Entry">>,
                             IF result.ok THEN result.wall_area ELSE 0,
                             PricePerBox(data.price_per_box))
          [] OTHER -> Failed(400, "Invalid source type")

\* nothing returned yet / nothing called
NoOut  == [ok |-> FALSE, error |-> "none"]
NoCalc == [call |-> [fn |-> "none"], out |-> NoOut]

\* ---------------------------------------------------------------- requests
IdleReq ==
    [op |-> "none", pc |-> "idle", sess |-> NoCart, modified |-> FALSE,
     arg |-> 0, item |-> NoItem, bill_id |-> 0, i |-> 0,
     total_boxes |-> 0, total_price |-> 0, bill |-> NoRow]

\* value: bill_count, bill_id, deleted_count, or the number of items shown
NoResp == [op |-> "none", status |-> 0, value |-> 0]

CartOps == {"add_to_bill", "remove_from_bill", "clear_bill"}

Free(r) == req[r].pc = "idle"

\* nothing in flight / no cart request in flight
Quiet == \A r \in Requests : Free(r)
NoCartOp == \A r \in Requests : req[r].op \notin CartOps

\* no commit in flight
NoCommit == \A r \in Requests : req[r].op # "save_bill"

\* The response: the session copy goes back to the client when the handler
\* set session.modified; the request is over.
Respond(r, rec, status, value) ==
    /\ req' = [req EXCEPT ![r] = IdleReq]
    /\ cookie' = IF rec.modified THEN rec.sess ELSE cookie
    /\ resp' = [op |-> rec.op, status |-> status, value |-> value]

Init ==
    /\ cookie = NoCart
    /\ req = [r \in Requests |-> IdleReq]
    /\ bills = {}
    /\ items = {}
    /\ bill_seq = 0
    /\ item_seq = 0
    /\ now = 0
    /\ resp = NoResp
    /\ calc = NoCalc

\* ---------------------------------------------------------------- clock
Ticks == now \div RetentionDays      \* advances so far

Tick(d) ==
    /\ now' = now + d
    /\ UNCHANGED <<cookie, req, bills, items, bill_seq, item_seq, resp, calc>>

\* ---------------------------------------------------------------- client
\* A request leaves the client with the session cookie the client holds.
\* Request slots are interchangeable: the lowest free one is used.
Start(r, op, pc, sess, arg, item) ==
    /\ Free(r)
    /\ \A q \in Requests : q < r => ~Free(q)
    /\ req' = [req EXCEPT ![r] = [IdleReq EXCEPT !.op = op, !.pc = pc,
                                     !.sess = sess, !.arg = arg, !.item = item]]
    /\ resp' = NoResp
    /\ UNCHANGED <<cookie, bills, items, bill_seq, item_seq, now, calc>>

SendAdd(r, calculation) ==
    /\ Len(session_get(cookie)) < MaxCart
    /\ Start(r, "add_to_bill", "run", cookie, 0, calculation)

SendRemove(r, index) == Start(r, "remove_from_bill", "run", cookie, index, NoItem)

SendClear(r) == Start(r, "clear_bill", "run", cookie, 0, NoItem)

SendSave(r) ==
    /\ NoCartOp /\ NoCommit
    /\ Start(r, "save_bill", "create", cookie, 0, NoItem)

\* commits that went on to create a bill or are about to test their cart
Saves == bill_seq + Cardinality({q \in Requests : req[q].op = "save_bill" /\ req[q].pc = "create"})

\* a commit sent whether or not another commit is in flight: nothing in
\* save_bill or the session keeps two requests of one session apart
SendSaveOverlapping(r) ==
    /\ NoCartOp
    /\ Start(r, "save_bill", "create", cookie, 0, NoItem)

\* view_bill, delete_bill and delete_old_bills never read the cart
SendView(r, bill_id) ==
    /\ NoCartOp
    /\ Start(r, "view_bill", "get", NoCart, bill_id, NoItem)

SendDelete(r, bill_id) ==
    /\ NoCartOp
    /\ Start(r, "delete_bill", "run", NoCart, bill_id, NoItem)

SendDeleteOld(r) ==
    /\ NoCartOp
    /\ Start(r, "delete_old_bills", "run", NoCart, 0, NoItem)

\* ---------------------------------------------------------------- cart handlers
\* the item put first
AddToBill_prepended(sess, calculation) ==
    session_set(<<calculation>> \o session_get(sess))

\* add_to_bill: create the cart when missing, then append
AddToBill(sess, calculation) ==
    session_set(Append(session_get(sess), calculation))

add_to_bill(r) ==
    /\ req[r].op = "add_to_bill" /\ req[r].pc = "run"
    /\ LET sess == AddToBill(req[r].sess, req[r].item)
       IN  Respond(r, [req[r] EXCEPT !.sess = sess, !.modified = TRUE],
                   200, Len(sess.items))
    /\ UNCHANGED <<bills, items, bill_seq, item_seq, now, calc>>

\* the upper bound off by one
ValidIndex_inclusive(sess, index) ==
    sess.present /\ 0 <= index /\ index <= Len(sess.items)

\* remove_from_bill: the guard of the pop
ValidIndex(sess, index) ==
    sess.present /\ 0 <= index /\ index < Len(sess.items)

remove_from_bill(r) ==
    /\ req[r].op = "remove_from_bill" /\ req[r].pc = "run"
    /\ IF ValidIndex(req[r].sess, req[r].arg)
          THEN Respond(r, [req[r] EXCEPT
                             !.sess = session_set(pop(req[r].sess.items, req[r].arg)),
                             !.modified = TRUE], 200, 0)
          ELSE Respond(r, req[r], 400, 0)
    /\ UNCHANGED <<bills, items, bill_seq, item_seq, now, calc>>

\* the cart set to [] only when the session has none
EmptiedSession_if_missing(sess) == IF sess.present THEN sess ELSE session_set(<<>>)

\* the assignment left out
EmptiedSession_kept(sess) == sess

\* session['current_bill'] = []
EmptiedSession(sess) == session_set(<<>>)

clear_bill(r) ==
    /\ req[r].op = "clear_bill" /\ req[r].pc = "run"
    /\ Respond(r, [req[r] EXCEPT !.sess = EmptiedSession(req[r].sess),
                                 !.modified = TRUE], 200, 0)
    /\ UNCHANGED <<bills, items, bill_seq, item_seq, now, calc>>

\* ---------------------------------------------------------------- save_bill
\* the emptiness test left out
NoItems_unchecked(bill_items) == FALSE

\* if not bill_items
NoItems(bill_items) == bill_items = <<>>

\* if item.get('total_price'): None and 0 are both falsy
Truthy(x) == x # None /\ x # 0

\* the accumulation left out
AddPrice_skipped(total_price, item) == total_price

AddPrice(total_price, item) ==
    IF Truthy(item.total_price) THEN total_price + item.total_price ELSE total_price

\* the empty check, then CalculationBill.create
save_bill_create(r) ==
    /\ req[r].op = "save_bill" /\ req[r].pc = "create"
    /\ IF NoItems(session_get(req[r].sess))
          THEN /\ Respond(r, req[r], 400, 0)
               /\ UNCHANGED <<bills, bill_seq>>
          ELSE /\ bill_seq' = bill_seq + 1
               /\ bills' = CalculationBill_create(bills, bill_seq + 1, now)
               /\ req' = [req EXCEPT ![r].pc = "items", ![r].bill_id = bill_seq + 1]
               /\ UNCHANGED <<cookie, resp>>
    /\ UNCHANGED <<items, item_seq, now, calc>>

\* one turn of the loop over bill_items
save_bill_item(r) ==
    /\ req[r].op = "save_bill" /\ req[r].pc = "items"
    /\ req[r].i < Len(session_get(req[r].sess))
    /\ LET item == session_get(req[r].sess)[req[r].i + 1]
       IN  IF InsertRaises(bills, req[r].bill_id, item)
              THEN /\ Respond(r, req[r], 500, 0)
                   /\ UNCHANGED <<items, item_seq>>
              ELSE /\ item_seq' = item_seq + 1
                   /\ items' = CalculationBillItem_create(items, item_seq + 1,
                                                          req[r].bill_id, item)
                   /\ req' = [req EXCEPT
                                ![r].i = @ + 1,
                                ![r].total_boxes = @ + item.boxes_needed,
                                ![r].total_price = AddPrice(@, item)]
                   /\ UNCHANGED <<cookie, resp>>
    /\ UNCHANGED <<bills, bill_seq, now, calc>>

\* after the loop: update_totals, clear the session cart, answer success
save_bill_finish(r) ==
    /\ req[r].op = "save_bill" /\ req[r].pc = "items"
    /\ req[r].i = Len(session_get(req[r].sess))
    /\ bills' = update_totals(bills, req[r].bill_id,
                              req[r].total_boxes, req[r].total_price)
    /\ Respond(r, [req[r] EXCEPT !.sess = EmptiedSession(req[r].sess),
                                 !.modified = TRUE], 200, req[r].bill_id)
    /\ UNCHANGED <<items, bill_seq, item_seq, now, calc>>

\* ---------------------------------------------------------------- view_bill
view_bill_get(r) ==
    /\ req[r].op = "view_bill" /\ req[r].pc = "get"
    /\ IF get_by_id(req[r].arg) = NoRow
          THEN Respond(r, req[r], 404, 0)
          ELSE /\ req' = [req EXCEPT ![r].pc = "view_items",
                                     ![r].bill = get_by_id(req[r].arg)]
               /\ UNCHANGED <<cookie, resp>>
    /\ UNCHANGED <<bills, items, bill_seq, item_seq, now, calc>>

\* the page shows the bill row read before and the items read now
view_bill_items(r) ==
    /\ req[r].op = "view_bill" /\ req[r].pc = "view_items"
    /\ Respond(r, req[r], 200, Cardinality(get_by_bill_id(req[r].arg)))
    /\ UNCHANGED <<bills, items, bill_seq, item_seq, now, calc>>

\* ---------------------------------------------------------------- deletion
delete_bill(r) ==
    /\ req[r].op = "delete_bill" /\ req[r].pc = "run"
    /\ LET deleted == delete(bills, req[r].arg)
       IN  /\ bills' = {b \in bills : b.id \notin deleted}
           /\ items' = Cascade(items, deleted)
    /\ Respond(r, req[r], 200, 0)
    /\ UNCHANGED <<bill_seq, item_seq, now, calc>>

delete_old_bills(r) ==
    /\ req[r].op = "delete_old_bills" /\ req[r].pc = "run"
    /\ LET deleted == delete_older_than_days(bills, now, RetentionDays)
       IN  /\ bills' = {b \in bills : b.id \notin deleted}
           /\ items' = Cascade(items, deleted)
           /\ Respond(r, req[r], 200, Cardinality(deleted))
    /\ UNCHANGED <<bill_seq, item_seq, now, calc>>

\* ---------------------------------------------------------------- item deletion
\* CalculationBillItem.delete: DELETE ... WHERE id = ?.  No route calls it; it
\* is an operation of the store, run on its own connection.
CalculationBillItem_delete(item_id) ==
    /\ items' = {it \in items : it.id # item_id}
    /\ UNCHANGED <<cookie, req, bills, bill_seq, item_seq, now, resp, calc>>

\* CalculationBillItem.delete_by_bill_id: DELETE ... WHERE bill_id = ?
CalculationBillItem_delete_by_bill_id(bill_id) ==
    /\ items' = {it \in items : it.bill_id # bill_id}
    /\ UNCHANGED <<cookie, req, bills, bill_seq, item_seq, now, resp, calc>>

\* ---------------------------------------------------------------- specifications
Handlers ==
    \/ \E r \in Requests : add_to_bill(r)
    \/ \E r \in Requests : remove_from_bill(r)
    \/ \E r \in Requests : clear_bill(r)

\* the bill workflow
Next ==
    \/ \E r \in Requests, c \in Payloads : Quiet /\ SendAdd(r, c)
    \/ \E r \in Requests, index \in 0..MaxCart : Quiet /\ SendRemove(r, index)
    \/ \E r \in Requests : Quiet /\ SendClear(r)
    \/ \E r \in Requests : bill_seq < MaxBills /\ SendSave(r)
    \/ \E r \in Requests, b \in 1..MaxBills : SendView(r, b)
    \/ \E r \in Requests, b \in 1..MaxBills : SendDelete(r, b)
    \/ Handlers
    \/ \E r \in Requests : save_bill_create(r)
    \/ \E r \in Requests : save_bill_item(r)
    \/ \E r \in Requests : save_bill_finish(r)
    \/ \E r \in Requests : view_bill_get(r)
    \/ \E r \in Requests : view_bill_items(r)
    \/ \E r \in Requests : delete_bill(r)

Spec == Init /\ [][Next]_vars

\* the cart alone, requests overlapping
NextCart ==
    \/ \E r \in Requests, c \in Payloads : SendAdd(r, c)
    \/ \E r \in Requests, index \in 0..MaxCart : SendRemove(r, index)
    \/ \E r \in Requests : SendClear(r)
    \/ Handlers

SpecCart == Init /\ [][NextCart]_vars

\* retention
NextPurge ==
    \/ \E d \in TickSteps : Ticks < MaxTicks /\ Tick(d)
    \/ \E r \in Requests, c \in KeptPayloads : Quiet /\ SendAdd(r, c)
    \/ \E r \in Requests : bill_seq < MaxKept /\ SendSave(r)
    \/ \E r \in Requests, b \in 1..MaxKept : SendDelete(r, b)
    \/ \E r \in Requests : SendDeleteOld(r)
    \/ \E r \in Requests : add_to_bill(r)
    \/ \E r \in Requests : save_bill_create(r)
    \/ \E r \in Requests : save_bill_item(r)
    \/ \E r \in Requests : save_bill_finish(r)
    \/ \E r \in Requests : delete_bill(r)
    \/ \E r \in Requests : delete_old_bills(r)

SpecPurge == Init /\ [][NextPurge]_vars

\* the line items of stored bills: commits of well-formed carts, and the
\* store's two deletions of line items called at any time
NextItems ==
    \/ \E r \in Requests, c \in KeptPayloads : Quiet /\ SendAdd(r, c)
    \/ \E r \in Requests : bill_seq < MaxKept /\ SendSave(r)
    \/ \E r \in Requests : add_to_bill(r)
    \/ \E r \in Requests : save_bill_create(r)
    \/ \E r \in Requests : save_bill_item(r)
    \/ \E r \in Requests : save_bill_finish(r)
    \/ \E item_id \in 1..item_seq : CalculationBillItem_delete(item_id)
    \/ \E bill_id \in 1..bill_seq : CalculationBillItem_delete_by_bill_id(bill_id)

SpecItems == Init /\ [][NextItems]_vars

\* the line items a client can have stored: any payload staged, then committed
NextLines ==
    \/ \E r \in Requests, c \in LinePayloads : Quiet /\ SendAdd(r, c)
    \/ \E r \in Requests : bill_seq < MaxBills /\ SendSave(r)
    \/ \E r \in Requests : add_to_bill(r)
    \/ \E r \in Requests : save_bill_create(r)
    \/ \E r \in Requests : save_bill_item(r)
    \/ \E r \in Requests : save_bill_finish(r)

SpecLines == Init /\ [][NextLines]_vars

\* commits of one session overlapping: the client sends a commit while
\* another is in flight, each request with the cart of the cookie it left with
NextSaves ==
    \/ \E r \in Requests, c \in KeptPayloads : Quiet /\ SendAdd(r, c)
    \/ \E r \in Requests : Saves < MaxSaves /\ SendSaveOverlapping(r)
    \/ \E r \in Requests : add_to_bill(r)
    \/ \E r \in Requests : save_bill_create(r)
    \/ \E r \in Requests : save_bill_item(r)
    \/ \E r \in Requests : save_bill_finish(r)

SpecSaves == Init /\ [][NextSaves]_vars

\* ---------------------------------------------------------------- calculations
\* The numbers the calculations are run on: a grid of quarters from below
\* zero up, and the sizes of the documented scenarios.
Grid == {Q(k, 4) : k \in -1..MaxQuarters}

Sizes   == Grid \cup {Q(8, 1), Q(10, 1), Q(52, 5), Q(12, 1)}
Heights == {Q(-1, 4), Q(0, 1), Q(5, 4), Q(8, 1)}
Areas   == Grid \cup {Q(31, 2), Q(41, 2), Q(21, 1), Q(100, 1), Q(202, 1), Q(357, 1)}

\* tile arguments: each preset key alone and with an explicit pair beside
\* it, and no key with every pair of a missing, zero, negative or positive
\* tiles_per_box and coverage_per_box
TileKeys == DOMAIN FLOOR_TILES \cup DOMAIN WALL_TILES
TileArgs ==
    {[tile_size |-> k, tiles_per_box |-> p[1], coverage_per_box |-> p[2]] :
        k \in TileKeys, p \in {<<Missing, Missing>>, <<Q(10, 1), Q(63, 4)>>}}
    \cup
    {[tile_size |-> "None", tiles_per_box |-> t, coverage_per_box |-> c] :
        t \in {Missing, Q(0, 1), Q(-4, 1), Q(10, 1)},
        c \in {Missing, Q(0, 1), Q(-16, 1), Q(16, 1), Q(63, 4), Q(201, 1)}}

\* manual tiles: length, width, unit, tiles_per_box
ManualTiles ==
    {[tile_length |-> t[1], tile_width |-> t[2], tile_unit |-> t[3], tiles_per_box |-> t[4]] :
        t \in {<<Q(12, 1), Q(12, 1), "inch", Q(10, 1)>>,
               <<Q(10, 1), Q(15, 1), "inch", Q(8, 1)>>,
               <<Q(12, 1), Q(8, 1),  "inch", Q(12, 1)>>,
               <<Q(2, 1),  Q(2, 1),  "feet", Q(4, 1)>>,
               <<Q(3, 2),  Q(5, 4),  "feet", Q(3, 1)>>,
               <<Q(12, 1), Q(12, 1), "inch", Q(0, 1)>>,
               <<Q(12, 1), Q(-12, 1), "inch", Q(10, 1)>>}}

\* quoted prices: none, the number 0, the number 50, the string "0"
Prices == {JsonNull, Json("number", Q(0, 1)), Json("number", Q(50, 1)),
           Json("string", Q(0, 1))}

\* the tile part of a request body, by source type
NoTile == [tile_length |-> Missing, tile_width |-> Missing, tile_unit |-> "None",
           tiles_per_box |-> Missing]
Sources ==
    {[source_type |-> "predefined", tile_size |-> k] @@ NoTile : k \in {"2x2", "12x18", "None"}}
    \cup {[source_type |-> "manual", tile_size |-> "None"] @@ m : m \in ManualTiles}
    \cup {[source_type |-> "inventory", tile_size |-> "None", product_id |-> id] @@ NoTile :
              id \in ProductIds \cup {2}}
    \cup {[source_type |-> "other", tile_size |-> "None"] @@ NoTile}

\* the room part of a request body: a direct area, or the dimensions
Rooms ==
    {[dimension_mode |-> "sqfeet", total_sqfeet |-> a,
      room_width |-> Missing, room_length |-> Missing, room_height |-> Missing] :
        a \in {Q(10, 1), Q(41, 2), Q(21, 1), Q(100, 1), Q(357, 1)}}
    \cup
    {[dimension_mode |-> "dimensions", total_sqfeet |-> Missing,
      room_width |-> d[1], room_length |-> d[2], room_height |-> d[3]] :
        d \in {<<Q(10, 1), Q(52, 5), Q(8, 1)>>, <<Q(10, 1), Q(12, 1), Q(8, 1)>>,
               <<Q(0, 1), Q(12, 1), Q(8, 1)>>}}

Bodies ==
    {room @@ source @@ [deduct_door |-> d, price_per_box |-> p] :
        room \in Rooms, source \in Sources, d \in BOOLEAN, p \in Prices}

\* the calls: a function of the calculator or a route, with its arguments
Calls ==
    {[fn |-> "calculate_floor_area", width |-> w, length |-> l] :
        w \in Sizes, l \in Sizes}
    \cup {[fn |-> "calculate_wall_area", width |-> w, length |-> l, height |-> h,
           deduct_door |-> d] :
             w \in Sizes, l \in Sizes, h \in Heights, d \in BOOLEAN}
    \cup {[fn |-> "calculate_floor_boxes_from_area", area |-> a, tile |-> t] :
             a \in Areas, t \in TileArgs}
    \cup {[fn |-> "calculate_floor_boxes", width |-> w, length |-> l, tile |-> t] :
             w \in Sizes, l \in Sizes, t \in TileArgs}
    \cup {[fn |-> "calculate_wall_boxes_from_area", wall_area |-> a, deduct_door |-> d,
           tile |-> t] :
             a \in Areas, d \in BOOLEAN, t \in TileArgs}
    \cup {[fn |-> "calculate_wall_boxes", width |-> w, length |-> l, height |-> h,
           deduct_door |-> d, tile |-> t] :
             w \in Sizes, l \in Sizes, h \in Heights, d \in BOOLEAN, t \in TileArgs}
    \cup {[fn |-> "calculate_custom_coverage"] @@ m : m \in ManualTiles}
    \cup {[fn |-> "calculate_floor", data |-> b] : b \in {x \in Bodies : x.deduct_door}}
    \cup {[fn |-> "calculate_wall", data |-> b] : b \in Bodies}

\* a calculation starts from any call on a calculator as constructed;
\* nothing is stored or staged
InitCalc ==
    /\ cookie = NoCart
    /\ req = [r \in Requests |-> IdleReq]
    /\ bills = {}
    /\ items = {}
    /\ bill_seq = 0
    /\ item_seq = 0
    /\ now = 0
    /\ resp = NoResp
    /\ calc \in {[call |-> c, out |-> NoOut,
                  floor_tiles |-> FLOOR_TILES, wall_tiles |-> WALL_TILES] : c \in Calls}

\* the call runs (again) and returns
Returns(fn, out) ==
    /\ calc.call.fn = fn
    /\ calc' = [calc EXCEPT !.out = out]
    /\ UNCHANGED <<cookie, req, bills, items, bill_seq, item_seq, now, resp>>

Run_calculate_floor_area ==
    Returns("calculate_floor_area",
            calculate_floor_area(calc.call.width, calc.call.length))

Run_calculate_wall_area ==
    Returns("calculate_wall_area",
            calculate_wall_area(calc.call.width, calc.call.length, calc.call.height,
                                calc.call.deduct_door))

Run_calculate_floor_boxes_from_area ==
    Returns("calculate_floor_boxes_from_area",
            calculate_floor_boxes_from_area(
                calc.call.area, calc.call.tile.tile_size,
                calc.call.tile.tiles_per_box, calc.call.tile.coverage_per_box))

Run_calculate_floor_boxes ==
    Returns("calculate_floor_boxes",
            calculate_floor_boxes(
                calc.call.width, calc.call.length, calc.call.tile.tile_size,
                calc.call.tile.tiles_per_box, calc.call.tile.coverage_per_box))

Run_calculate_wall_boxes_from_area ==
    Returns("calculate_wall_boxes_from_area",
            calculate_wall_boxes_from_area(
                calc.call.wall_area, calc.call.tile.tile_size, calc.call.deduct_door,
                calc.call.tile.tiles_per_box, calc.call.tile.coverage_per_box))

Run_calculate_wall_boxes ==
    Returns("calculate_wall_boxes",
            calculate_wall_boxes(
                calc.call.width, calc.call.length, calc.call.height,
                calc.call.tile.tile_size, calc.call.deduct_door,
                calc.call.tile.tiles_per_box, calc.call.tile.coverage_per_box))

Run_calculate_custom_coverage ==
    Returns("calculate_custom_coverage",
            [ok |-> TRUE,
             coverage |-> calculate_custom_coverage(
                              calc.call.tile_length, calc.call.tile_width,
                              calc.call.tile_unit, calc.call.tiles_per_box)])

Run_calculate_floor == Returns("calculate_floor", calculate_floor(calc.call.data))

Run_calculate_wall == Returns("calculate_wall", calculate_wall(calc.call.data))

NextCalc ==
    \/ Run_calculate_floor_area
    \/ Run_calculate_wall_area
    \/ Run_calculate_floor_boxes_from_area
    \/ Run_calculate_floor_boxes
    \/ Run_calculate_wall_boxes_from_area
    \/ Run_calculate_wall_boxes
    \/ Run_calculate_custom_coverage
    \/ Run_calculate_floor
    \/ Run_calculate_wall

SpecCalc == InitCalc /\ [][NextCalc]_vars

\* ================================================================ properties
RECURSIVE SumBoxes(_), SumPrice(_)
SumBoxes(S) ==
    IF S = {} THEN 0
    ELSE LET it == CHOOSE x \in S : TRUE
         IN  it.boxes_needed + SumBoxes(S \ {it})

\* an absent total_price counts as 0
SumPrice(S) ==
    IF S = {} THEN 0
    ELSE LET it == CHOOSE x \in S : TRUE
         IN  (IF it.total_price = None THEN 0 ELSE it.total_price) + SumPrice(S \ {it})

\* this step is the response to request r, a request for op
Answers(r, op) ==
    req[r].op = op /\ req[r].pc # "idle" /\ req'[r].pc = "idle"

\* C1: no reader (view_bill: get_by_id, then get_by_bill_id) is shown a bill
\* that has line items while its totals are still the initial zeros.
C1_ReaderNeverSeesZeroTotalsWithItems ==
    [][\A r \in Requests :
          (Answers(r, "view_bill") /\ resp'.status = 200)
          => ~(resp'.value > 0 /\ req[r].bill.total_boxes = 0
                              /\ req[r].bill.total_price = 0)]_vars

\* C2: when save_bill fails after its bill row was created, neither that
\* row nor any line item of it remains in the store.
C2_FailedCommitLeavesNothing ==
    [][\A r \in Requests :
          (Answers(r, "save_bill") /\ resp'.status = 500)
          => /\ \A b \in bills' : b.id # req[r].bill_id
             /\ \A it \in items' : it.bill_id # req[r].bill_id]_vars

\* C3: after a successful save_bill the stored bill's total_boxes is the sum
\* of boxes_needed over its line items and its total_price the sum of their
\* total_price, an absent price counting as 0.
C3_TotalsAreSums ==
    (resp.op = "save_bill" /\ resp.status = 200)
    => \A b \in bills :
          b.id = resp.value
          => /\ b.total_boxes = SumBoxes(ItemsOf(b.id))
             /\ b.total_price = SumPrice(ItemsOf(b.id))

\* scenario D: (7 boxes, 700) and (10 boxes, no price) give 17 and 700
C3_Witness ==
    /\ resp.op = "save_bill" /\ resp.status = 200
    /\ \E b \in bills :
          /\ b.id = resp.value
          /\ Cardinality(ItemsOf(b.id)) = 2
          /\ \E it \in ItemsOf(b.id) : it.total_price = None
          /\ b.total_boxes = 17 /\ b.total_price = 700

\* C4: when save_bill answers success the session cart has length 0.
C4_CommitClearsCart ==
    [][\A r \in Requests :
          (Answers(r, "save_bill") /\ resp'.status = 200)
          => cookie'.present /\ Len(cookie'.items) = 0]_vars

\* a cart of two items was committed and the cart is now empty
C4_Witness ==
    /\ resp.op = "save_bill" /\ resp.status = 200
    /\ Cardinality(items) = 2
    /\ cookie.present /\ cookie.items = <<>>

\* C5: save_bill with an empty or missing cart answers 400 ('No items in
\* bill'), creates no bill row and no line item, and leaves the cart as it was.
C5_EmptyCartRejected ==
    [][\A r \in Requests :
          (req[r].op = "save_bill" /\ req[r].pc = "create"
             /\ session_get(req[r].sess) = <<>> /\ req'[r] # req[r])
          => /\ req'[r].pc = "idle"
             /\ resp' = [op |-> "save_bill", status |-> 400, value |-> 0]
             /\ bills' = bills /\ items' = items
             /\ bill_seq' = bill_seq /\ item_seq' = item_seq
             /\ cookie' = cookie]_vars

\* an empty (present) cart was refused and nothing was stored
C5_Witness ==
    /\ resp.op = "save_bill" /\ resp.status = 400
    /\ cookie.present /\ cookie.items = <<>>
    /\ bills = {} /\ items = {} /\ bill_seq = 0

\* C6: cart requests of one session are serialized, so of two overlapping
\* add_to_bill requests both items end up in the cart: when an add answers
\* after another add answered during its flight, the cart is two longer than
\* the cart the request left with.
C6_ConcurrentAddsKeepBoth ==
    [][\A r \in Requests :
          LET old == session_get(req[r].sess)
          IN  (/\ Answers(r, "add_to_bill")
               /\ resp.op = "add_to_bill" /\ resp.status = 200
               /\ Len(cookie.items) = Len(old) + 1
               /\ SubSeq(cookie.items, 1, Len(old)) = old)
              => Len(cookie'.items) = Len(old) + 2]_vars

\* C7: every persisted line item's bill_id is the id of an existing bill.
C7_ItemsHaveABill ==
    \A it \in items : \E b \in bills : b.id = it.bill_id

\* a commit inserted its first item, then its bill was deleted under it
\* and took the item along
C7_Witness ==
    \E r \in Requests :
       /\ req[r].op = "save_bill" /\ req[r].pc = "items" /\ req[r].i = 1
       /\ Len(req[r].sess.items) = 2
       /\ \A b \in bills : b.id # req[r].bill_id
       /\ item_seq = 1 /\ items = {}

C9_RemoveChecksIndex ==
    [][\A r \in Requests :
          LET sess == req[r].sess
              index == req[r].arg
          IN  Answers(r, "remove_from_bill")
              => IF sess.present /\ 0 <= index /\ index < Len(sess.items)
                    THEN /\ resp'.status = 200
                         /\ cookie'.present
                         /\ cookie'.items = SubSeq(sess.items, 1, index)
                                            \o SubSeq(sess.items, index + 2, Len(sess.items))
                    ELSE /\ resp'.status = 400
                         /\ cookie' = cookie]_vars

\* an item was removed from a cart of two
C9_Witness ==
    /\ resp.op = "remove_from_bill" /\ resp.status = 200
    /\ cookie.present /\ Len(cookie.items) = 1

\* C10: add_to_bill appends the item to the request's cart: one longer, the
\* earlier items unchanged in place, the new item last, bill_count the new
\* length; a missing cart counts as empty.
C10_AddAppends ==
    [][\A r \in Requests :
          LET old == session_get(req[r].sess)
          IN  Answers(r, "add_to_bill")
              => /\ cookie'.present
                 /\ Len(cookie'.items) = Len(old) + 1
                 /\ \A k \in 1..Len(old) : cookie'.items[k] = old[k]
                 /\ cookie'.items[Len(old) + 1] = req[r].item
                 /\ resp'.status = 200
                 /\ resp'.value = Len(cookie'.items)]_vars

\* a second, different item was appended
C10_Witness ==
    /\ resp.op = "add_to_bill" /\ resp.value = 2
    /\ Len(cookie.items) = 2
    /\ cookie.items[1] # cookie.items[2]

\* C11: clear_bill answers success and leaves the session cart empty,
\* whether the session had no cart, an empty cart or a cart with items, and
\* changes no bill row, no item row and no id counter.
C11_ClearEmptiesCart ==
    [][\A r \in Requests :
          Answers(r, "clear_bill")
          => /\ resp'.status = 200
             /\ session_get(cookie') = <<>>
             /\ bills' = bills /\ items' = items
             /\ bill_seq' = bill_seq /\ item_seq' = item_seq]_vars

\* the cart was cleared while a committed bill and its items are stored
C11_Witness ==
    /\ resp.op = "clear_bill" /\ resp.status = 200
    /\ cookie = session_set(<<>>)
    /\ bills # {} /\ items # {}

\* ---------------------------------------------------------------- calculations
Abs(k) == IF k < 0 THEN -k ELSE k

Same(x, y)   == x.n * y.d = y.n * x.d
AtMost(x, y) == x.n * y.d <= y.n * x.d

\* k is the least integer that is not below x
IsCeil(k, x) == k * x.d >= x.n /\ (k - 1) * x.d < x.n

\* r is a number of hundredths and no other is nearer to x
IsRound2(r, x) ==
    /\ (100 * r.n) % r.d = 0
    /\ 200 * Abs(r.n * x.d - x.n * r.d) <= x.d * r.d

BoxFns == {"calculate_floor_boxes_from_area", "calculate_floor_boxes",
           "calculate_wall_boxes_from_area", "calculate_wall_boxes"}
GeometryFns == {"calculate_floor_boxes", "calculate_wall_boxes"}
RouteFns == {"calculate_floor", "calculate_wall"}

\* the call of fn has returned
Returned(fn) == calc.call.fn = fn /\ calc.out # NoOut

\* the preset table of the entry point's category
TableOf(fn) ==
    IF fn \in {"calculate_floor_boxes_from_area", "calculate_floor_boxes"}
       THEN FLOOR_TILES ELSE WALL_TILES

\* the area a box-count entry point starts from, before any rounding of it
GivenArea(call, out) ==
    CASE call.fn = "calculate_floor_boxes_from_area" -> call.area
      [] call.fn = "calculate_floor_boxes" -> Times(call.width, call.length)
      [] call.fn = "calculate_wall_boxes_from_area" -> call.wall_area
      [] call.fn = "calculate_wall_boxes" -> Times(Q(out.perimeter, 1), call.height)

\* the area a result reports
AreaOf(out) == IF out.category = "floor" THEN out.area ELSE out.wall_area

\* C12: a result of a box-count entry point for a positive area a and a
\* positive coverage c has area = ceil(a), boxes_needed = ceil(area / c) of
\* the exact quotient, and boxes_needed >= the boxes_exact it reports.
C12_BoxesAreCeilOfCeil ==
    \A fn \in BoxFns :
       (/\ Returned(fn) /\ calc.out.ok
        /\ GivenArea(calc.call, calc.out).n > 0
        /\ calc.out.coverage_per_box.n > 0)
       => /\ IsCeil(AreaOf(calc.out), GivenArea(calc.call, calc.out))
          /\ IsCeil(calc.out.boxes_needed,
                    Over(Q(AreaOf(calc.out), 1), calc.out.coverage_per_box))
          /\ AtMost(calc.out.boxes_exact, Q(calc.out.boxes_needed, 1))

\* scenario A: floor 10 x 10.4 with preset 2x2: area 104, 6.5 boxes, 7 needed
C12_Witness ==
    /\ Returned("calculate_floor_boxes") /\ calc.out.ok
    /\ calc.call.width = Q(10, 1) /\ calc.call.length = Q(52, 5)
    /\ calc.call.tile.tile_size = "2x2"
    /\ calc.out.area = 104
    /\ Same(calc.out.boxes_exact, Q(13, 2))
    /\ calc.out.boxes_needed = 7

\* C13: a box-count entry point given no preset key of its category and an
\* explicit tiles_per_box or coverage_per_box that is zero or negative fails
\* with InvalidTileSpec, and every result has both strictly positive.
C13_NonPositiveTileSpecRejected ==
    \A fn \in BoxFns :
       Returned(fn)
       => /\ (/\ calc.call.tile.tile_size \notin DOMAIN TableOf(fn)
              /\ \/ (calc.call.tile.tiles_per_box # Missing
                        /\ calc.call.tile.tiles_per_box.n <= 0)
                 \/ (calc.call.tile.coverage_per_box # Missing
                        /\ calc.call.tile.coverage_per_box.n <= 0))
             => calc.out = InvalidTileSpec
          /\ calc.out.ok
             => calc.out.tiles_per_box.n > 0 /\ calc.out.coverage_per_box.n > 0

\* the explicit pair lacks a member / lacks a member or has a zero one
Incomplete(tile) == tile.tiles_per_box = Missing \/ tile.coverage_per_box = Missing
Unusable(tile) ==
    \/ Incomplete(tile)
    \/ tile.tiles_per_box.n = 0
    \/ tile.coverage_per_box.n = 0

\* some dimension of the call is not positive
NonPositive(call) ==
    CASE call.fn \in {"calculate_floor_area", "calculate_floor_boxes"} ->
            call.width.n <= 0 \/ call.length.n <= 0
      [] call.fn \in {"calculate_wall_area", "calculate_wall_boxes"} ->
            call.width.n <= 0 \/ call.length.n <= 0 \/ call.height.n <= 0
      [] OTHER -> FALSE

\* C14 as stated: a box-count entry point fails with InvalidTileSpec exactly
\* when tile_size is no key of its category's table and tiles_per_box or
\* coverage_per_box is missing, and returns a result in every other case.
C14_FailsExactlyWhenIncomplete ==
    \A fn \in BoxFns :
       Returned(fn)
       => IF calc.call.tile.tile_size \notin DOMAIN TableOf(fn)
                /\ Incomplete(calc.call.tile)
             THEN calc.out = InvalidTileSpec
             ELSE calc.out.ok

\* C14 amended: a box-count entry point fails with InvalidTileSpec exactly
\* when tile_size is no key of its category's table and tiles_per_box or
\* coverage_per_box is missing or zero; in every other case it returns a
\* result, except that the two geometry entry points fail with
\* InvalidDimension on a dimension that is not positive.
C14_FailsExactlyWhenUnusable ==
    \A fn \in BoxFns :
       Returned(fn)
       => IF calc.call.tile.tile_size \notin DOMAIN TableOf(fn)
                /\ Unusable(calc.call.tile)
             THEN calc.out = InvalidTileSpec
             ELSE IF fn \in GeometryFns /\ NonPositive(calc.call)
                     THEN calc.out = InvalidDimension
                     ELSE calc.out.ok

\* a floor key with no pair was refused by a wall entry point
C14_Witness ==
    /\ Returned("calculate_wall_boxes_from_area")
    /\ calc.call.tile.tile_size = "2x2"
    /\ Incomplete(calc.call.tile)
    /\ calc.out = InvalidTileSpec

\* C15: for positive width, length and height the perimeter is
\* ceil(2*(w+l) - 2) with the door deducted and ceil(2*(w+l)) without, and
\* wall_area is ceil(perimeter * height) of that rounded perimeter; 10 x 12 x 8
\* with the door deducted gives 42 and 336, and 38 boxes of preset 12x18.
C15_WallAreaFromRoundedPerimeter ==
    \A fn \in {"calculate_wall_area", "calculate_wall_boxes"} :
       (Returned(fn) /\ ~NonPositive(calc.call)
          /\ (fn = "calculate_wall_boxes" => calc.out.ok))
       => LET around == Times(Q(2, 1), Plus(calc.call.width, calc.call.length))
          IN  /\ calc.out.ok
              /\ IsCeil(calc.out.perimeter,
                        IF calc.call.deduct_door THEN Minus(around, Q(2, 1)) ELSE around)
              /\ IsCeil(calc.out.wall_area,
                        Times(Q(calc.out.perimeter, 1), calc.call.height))
              /\ (/\ calc.call.width = Q(10, 1) /\ calc.call.length = Q(12, 1)
                  /\ calc.call.height = Q(8, 1) /\ calc.call.deduct_door)
                 => /\ calc.out.perimeter = 42 /\ calc.out.wall_area = 336
                    /\ (fn = "calculate_wall_boxes" /\ calc.out.tile_size = "12x18")
                       => calc.out.boxes_needed = 38

\* scenario B
C15_Witness ==
    /\ Returned("calculate_wall_boxes") /\ calc.out.ok
    /\ calc.call.width = Q(10, 1) /\ calc.call.length = Q(12, 1)
    /\ calc.call.height = Q(8, 1) /\ calc.call.deduct_door
    /\ calc.call.tile.tile_size = "12x18"
    /\ calc.out.perimeter = 42 /\ calc.out.wall_area = 336
    /\ calc.out.boxes_needed = 38

\* C16: a wall calculation from a direct area counts the boxes for
\* ceil(total_sqfeet - 21) when the door is to be deducted and for
\* ceil(total_sqfeet) when it is not.
C16_DirectWallAreaDoor ==
    (/\ Returned("calculate_wall") /\ calc.out.ok
     /\ calc.call.data.dimension_mode = "sqfeet")
    => LET data   == calc.call.data
           result == calc.out.result
       IN  /\ IsCeil(result.wall_area,
                     IF data.deduct_door
                        THEN Q(data.total_sqfeet.n - 21 * data.total_sqfeet.d,
                               data.total_sqfeet.d)
                        ELSE data.total_sqfeet)
           /\ result.area_calculated = result.wall_area
           /\ IsCeil(result.boxes_needed,
                     Over(Q(result.wall_area, 1), result.coverage_per_box))

\* 357 sq ft with the door deducted: 336, and 38 boxes of preset 12x18
C16_Witness ==
    /\ Returned("calculate_wall") /\ calc.out.ok
    /\ calc.call.data.dimension_mode = "sqfeet"
    /\ calc.call.data.total_sqfeet = Q(357, 1) /\ calc.call.data.deduct_door
    /\ calc.call.data.tile_size = "12x18"
    /\ calc.out.result.wall_area = 336
    /\ calc.out.result.boxes_needed = 38

\* C17: calculate_floor_area and calculate_wall_area fail with
\* InvalidDimension on a width, length or height that is not positive, and
\* calculate_floor_boxes and calculate_wall_boxes then return no result: they
\* fail, with InvalidDimension when the tile arguments are accepted.
C17_NonPositiveDimensionRejected ==
    /\ \A fn \in {"calculate_floor_area", "calculate_wall_area"} :
          (Returned(fn) /\ NonPositive(calc.call)) => calc.out = InvalidDimension
    /\ \A fn \in GeometryFns :
          (Returned(fn) /\ NonPositive(calc.call))
          => /\ ~calc.out.ok
             /\ calc.out # InvalidTileSpec => calc.out = InvalidDimension

\* a floor of width 0 with preset 2x2 was refused for its dimension
C17_Witness ==
    /\ Returned("calculate_floor_boxes")
    /\ calc.call.width.n = 0 /\ calc.call.length = Q(10, 1)
    /\ calc.call.tile.tile_size = "2x2"
    /\ calc.out = InvalidDimension

TileSqFt(tile) ==
    IF tile.tile_unit = "inch"
       THEN Q(tile.tile_length.n * tile.tile_width.n,
              144 * tile.tile_length.d * tile.tile_width.d)
       ELSE Times(tile.tile_length, tile.tile_width)

\* the coverage a returned call resolved for a manual tile
ManualCoverage ==
    IF calc.call.fn = "calculate_custom_coverage"
       THEN calc.out.coverage ELSE calc.out.result.coverage_per_box

\* the manual tile of the call
ManualTile == IF calc.call.fn = "calculate_custom_coverage" THEN calc.call ELSE calc.call.data

\* a manual tile's coverage was resolved: by the resolver, or in a route
ResolvedManual ==
    \/ Returned("calculate_custom_coverage")
    \/ \E fn \in RouteFns :
          Returned(fn) /\ calc.out.ok /\ calc.call.data.source_type = "manual"

\* C19 as stated: the coverage of a manual tile in inches is the area of one
\* tile in square feet, (length*width)/144, rounded to 2 decimals and then
\* multiplied by tiles_per_box.
C19_CoverageRoundedPerTile ==
    (ResolvedManual /\ ManualTile.tile_unit = "inch")
    => \E hundredths \in -200..200 :
          /\ IsRound2(Q(hundredths, 100), TileSqFt(ManualTile))
          /\ Same(ManualCoverage, Times(Q(hundredths, 100), ManualTile.tiles_per_box))

\* C19 amended: the coverage of a manual tile is the area of one tile in
\* square feet ((length*width)/144 for inches, length*width for feet)
\* multiplied by tiles_per_box and then rounded to 2 decimals; 12in x 12in
\* with 10 tiles per box gives 10.0 and, for an area of 100, 10 boxes.
C19_CoverageRoundedPerBox ==
    ResolvedManual
    => /\ IsRound2(ManualCoverage, Times(TileSqFt(ManualTile), ManualTile.tiles_per_box))
       /\ (/\ calc.call.fn = "calculate_floor"
           /\ ManualTile.tile_length = Q(12, 1) /\ ManualTile.tile_width = Q(12, 1)
           /\ ManualTile.tile_unit = "inch" /\ ManualTile.tiles_per_box = Q(10, 1)
           /\ calc.call.data.dimension_mode = "sqfeet"
           /\ calc.call.data.total_sqfeet = Q(100, 1))
          => Same(ManualCoverage, Q(10, 1)) /\ calc.out.result.boxes_needed = 10

\* scenario C
C19_Witness ==
    /\ Returned("calculate_floor") /\ calc.out.ok
    /\ calc.call.data.source_type = "manual"
    /\ calc.call.data.tile_length = Q(12, 1) /\ calc.call.data.tile_width = Q(12, 1)
    /\ calc.call.data.tile_unit = "inch" /\ calc.call.data.tiles_per_box = Q(10, 1)
    /\ calc.call.data.total_sqfeet = Q(100, 1)
    /\ Same(calc.out.result.coverage_per_box, Q(10, 1))
    /\ calc.out.result.area = 100
    /\ calc.out.result.boxes_needed = 10

\* C20: an assembled line item has a total_price exactly when a price per
\* box was quoted, and then total_price = price_per_box * boxes_needed; a
\* quoted price of 0 gives total_price 0.
C20_TotalPriceIffQuoted ==
    \A fn \in RouteFns :
       (Returned(fn) /\ calc.out.ok)
       => LET quoted == calc.call.data.price_per_box
              result == calc.out.result
          IN  IF quoted.json = "null"
                 THEN result.total_price = Missing
                 ELSE /\ result.total_price # Missing
                      /\ Same(result.total_price,
                              Times(quoted.v, Q(result.boxes_needed, 1)))

\* the presets as the claim lists them: (tiles_per_box, coverage_per_box)
FloorPresets == "1x1" :> <<10, 10>> @@ "2x2" :> <<4, 16>> @@ "4x2" :> <<2, 16>>
WallPresets  == "12x8" :> <<12, 8>> @@ "10x15" :> <<8, 9>> @@ "12x18" :> <<6, 9>>

PresetsOf(fn) ==
    IF fn \in {"calculate_floor_boxes_from_area", "calculate_floor_boxes"}
       THEN FloorPresets ELSE WallPresets

\* table holds exactly the listed presets
HoldsPresets(table, presets) ==
    /\ DOMAIN table = DOMAIN presets
    /\ \A k \in DOMAIN presets :
          table[k] = [tiles_per_box |-> presets[k][1], coverage_per_box |-> presets[k][2]]

\* C21: a box-count entry point given a preset key of its own category
\* returns, when it returns a result, that key with the preset's fixed
\* (tiles_per_box, coverage_per_box); given a key of the other category and
\* no explicit pair it fails with InvalidTileSpec; and after any calculation
\* the calculator's two tables hold exactly the listed presets.
C21_PresetsFixedPerCategory ==
    \A fn \in BoxFns :
       Returned(fn)
       => LET tile == calc.call.tile
          IN  /\ (tile.tile_size \in DOMAIN PresetsOf(fn) /\ calc.out.ok)
                 => /\ calc.out.tile_size = tile.tile_size
                    /\ calc.out.tiles_per_box = Q(PresetsOf(fn)[tile.tile_size][1], 1)
                    /\ calc.out.coverage_per_box = Q(PresetsOf(fn)[tile.tile_size][2], 1)
              /\ (/\ tile.tile_size \in (DOMAIN FloorPresets \cup DOMAIN WallPresets)
                                        \ DOMAIN PresetsOf(fn)
                  /\ tile.tiles_per_box = Missing /\ tile.coverage_per_box = Missing)
                 => calc.out = InvalidTileSpec
              /\ HoldsPresets(calc.floor_tiles, FloorPresets)
              /\ HoldsPresets(calc.wall_tiles, WallPresets)

\* a wall entry point resolved the wall preset 10x15 to (8, 9)
C21_Witness ==
    /\ Returned("calculate_wall_boxes") /\ calc.out.ok
    /\ calc.call.tile.tile_size = "10x15"
    /\ calc.out.tiles_per_box = Q(8, 1) /\ calc.out.coverage_per_box = Q(9, 1)
    /\ HoldsPresets(calc.wall_tiles, WallPresets)

\* the answer of `except Exception`: 500, 'Calculation error: ...'
GenericFailure(out) == ~out.ok /\ out.status = 500

\* what a route answers a call with
Answer(c) == IF c.fn = "calculate_floor" THEN calculate_floor(c.data) ELSE calculate_wall(c.data)

\* the calls of the routes that fail for another cause than the lookup
OtherFailures ==
    {c \in Calls : /\ c.fn \in RouteFns
                   /\ ~(c.data.source_type = "inventory" /\ c.data.product_id \notin ProductIds)
                   /\ ~Answer(c).ok}

\* C22: a calculation from the inventory whose product_id finds no product
\* fails with a reason of its own: not the generic 'Calculation error' of a
\* 500, and an error no failure of another cause is answered with.
C22_ProductNotFoundIsSpecific ==
    \A fn \in RouteFns :
       (/\ Returned(fn)
        /\ calc.call.data.source_type = "inventory"
        /\ calc.call.data.product_id \notin ProductIds)
       => /\ ~calc.out.ok
          /\ ~GenericFailure(calc.out)
          /\ \A c \in OtherFailures : Answer(c).error # calc.out.error

\* C23: whenever no commit is in progress every stored bill's total_boxes and
\* total_price are the sums over the line items it has now, also after
\* CalculationBillItem.delete or delete_by_bill_id took items away; and a
\* commit's update_totals writes the sums over the items the bill then has.
C23_TotalsFollowItems ==
    /\ [](NoCommit => \A b \in bills :
                         /\ b.total_boxes = SumBoxes(ItemsOf(b.id))
                         /\ b.total_price = SumPrice(ItemsOf(b.id)))
    /\ [][\A r \in Requests :
             (Answers(r, "save_bill") /\ resp'.status = 200)
             => /\ req[r].total_boxes = SumBoxes(ItemsOf(req[r].bill_id))
                /\ req[r].total_price = SumPrice(ItemsOf(req[r].bill_id))]_vars

\* C24: a commit of a well-formed cart that bill deletions and purges
\* interleave with ends as one of the serial orders does: it answers success
\* with the cart emptied, and its bill is then either stored whole (every
\* cart item a line item, the totals their sums: the deletion came first) or
\* gone with all its items (the deletion came last).
C24_CommitSerializesWithDeletion ==
    [][\A r \in Requests :
          LET cart    == session_get(req[r].sess)
              bill_id == req[r].bill_id
              lines   == {it \in items' : it.bill_id = bill_id}
          IN  (Answers(r, "save_bill") /\ cart # <<>>)
              => /\ resp'.status = 200
                 /\ session_get(cookie') = <<>>
                 /\ \/ /\ \A b \in bills' : b.id # bill_id
                       /\ lines = {}
                    \/ /\ \E b \in bills' :
                             /\ b.id = bill_id
                             /\ b.total_boxes = SumBoxes(lines)
                             /\ b.total_price = SumPrice(lines)
                       /\ Cardinality(lines) = Len(cart)]_vars

\* x is a whole number
IsWhole(x) == x.n % x.d = 0

\* C25 as stated: in every result of a box-count entry point boxes_needed is
\* the ceiling of the boxes_exact the result reports.
C25_BoxesNeededIsCeilOfReported ==
    \A fn \in BoxFns :
       (Returned(fn) /\ calc.out.ok)
       => IsCeil(calc.out.boxes_needed, calc.out.boxes_exact)

\* C25 amended: in every result of a box-count entry point boxes_needed is
\* the ceiling of the quotient area / coverage_per_box itself, and the
\* reported boxes_exact is that quotient rounded to 2 decimals; so
\* boxes_needed is the ceiling of the reported boxes_exact, or one more when
\* the rounding went down to a whole number.
C25_BoxesNeededIsCeilOfQuotient ==
    \A fn \in BoxFns :
       (Returned(fn) /\ calc.out.ok)
       => LET quotient == Over(Q(AreaOf(calc.out), 1), calc.out.coverage_per_box)
              reported == calc.out.boxes_exact
          IN  /\ IsCeil(calc.out.boxes_needed, quotient)
              /\ IsRound2(reported, quotient)
              /\ IF IsWhole(reported) /\ ~AtMost(quotient, reported)
                    THEN Same(Q(calc.out.boxes_needed - 1, 1), reported)
                    ELSE IsCeil(calc.out.boxes_needed, reported)

\* 202 sq ft at 201 per box: 1.00497... is reported as 1.0 and 2 are needed
C25_Witness ==
    /\ Returned("calculate_floor_boxes_from_area") /\ calc.out.ok
    /\ calc.out.area = 202
    /\ calc.out.coverage_per_box = Q(201, 1)
    /\ Same(calc.out.boxes_exact, Q(1, 1))
    /\ calc.out.boxes_needed = 2

\* the tile arguments are a floor preset key or a positive explicit pair
ValidFloorTile(tile) ==
    \/ tile.tile_size \in DOMAIN FloorPresets
    \/ /\ tile.tiles_per_box # Missing /\ tile.tiles_per_box.n > 0
       /\ tile.coverage_per_box # Missing /\ tile.coverage_per_box.n > 0

\* what calculate_floor_boxes_from_area returns for the product of the
\* call's width and length and the call's tile arguments
FromProduct(call) ==
    calculate_floor_boxes_from_area(Times(call.width, call.length), call.tile.tile_size,
                                    call.tile.tiles_per_box, call.tile.coverage_per_box)

SharedFields == {"ok", "category", "area", "tile_size", "tiles_per_box",
                 "coverage_per_box", "boxes_exact", "boxes_needed"}

\* C26: for positive width and length and valid tile arguments,
\* calculate_floor_boxes returns a result whose area, tile_size,
\* tiles_per_box, coverage_per_box, boxes_exact and boxes_needed are those
\* calculate_floor_boxes_from_area returns for width * length, and which has
\* besides them only the width and the length it was given.
C26_GeometryAgreesWithDirectArea ==
    (/\ Returned("calculate_floor_boxes")
     /\ ~NonPositive(calc.call) /\ ValidFloorTile(calc.call.tile))
    => LET direct == FromProduct(calc.call)
       IN  /\ calc.out.ok /\ direct.ok
           /\ DOMAIN direct = SharedFields
           /\ DOMAIN calc.out = SharedFields \cup {"width", "length"}
           /\ \A f \in SharedFields : calc.out[f] = direct[f]
           /\ calc.out.width = calc.call.width /\ calc.out.length = calc.call.length

\* 0.25 x 0.25 with an explicit pair: both count the boxes for 1 sq ft
C26_Witness ==
    /\ Returned("calculate_floor_boxes") /\ calc.out.ok
    /\ calc.call.width = Q(1, 4) /\ calc.call.length = Q(1, 4)
    /\ calc.call.tile.tile_size = "None"
    /\ calc.out.area = 1 /\ FromProduct(calc.call).area = 1
    /\ calc.out.boxes_needed = FromProduct(calc.call).boxes_needed

\* C27: every result of a calculation with a preset or a positive explicit
\* tile spec has an area of at least 1 and boxes_needed of at least 1,
\* whether from the dimensions or a direct area, with the door deducted or
\* not, from an entry point or a route; the wall area of a room is at least 1.
C27_ResultsAreAtLeastOne ==
    /\ \A fn \in BoxFns :
          (/\ Returned(fn) /\ calc.out.ok
           /\ calc.out.tiles_per_box.n > 0 /\ calc.out.coverage_per_box.n > 0)
          => AreaOf(calc.out) >= 1 /\ calc.out.boxes_needed >= 1
    /\ \A fn \in RouteFns :
          (/\ Returned(fn) /\ calc.out.ok
           /\ calc.out.result.tiles_per_box.n > 0
           /\ calc.out.result.coverage_per_box.n > 0)
          => calc.out.result.area_calculated >= 1 /\ calc.out.result.boxes_needed >= 1
    /\ (Returned("calculate_wall_area") /\ calc.out.ok)
       => calc.out.perimeter >= 1 /\ calc.out.wall_area >= 1
    /\ (Returned("calculate_floor_area") /\ calc.out.ok) => calc.out.area >= 1

\* C28: of two commits of one session over the same cart only one creates a
\* bill: a commit that answers after the cart it left with was committed by
\* another request answers 400 (no items) and has created no bill, so no
\* cart item becomes a line item of two bills.
C28_CartCommittedOnce ==
    [][\A r \in Requests :
          (/\ Answers(r, "save_bill")
           /\ session_get(req[r].sess) # <<>>
           /\ cookie = session_set(<<>>))
          => /\ resp'.status = 400
             /\ req[r].bill_id = 0
             /\ bills' = bills /\ items' = items]_vars

C30_PresetWinsAndPairUsed ==
    \A fn \in BoxFns :
       Returned(fn)
       => LET tile    == calc.call.tile
              is_key  == tile.tile_size \in DOMAIN PresetsOf(fn)
              bad_dim == fn \in GeometryFns /\ NonPositive(calc.call)
          IN  /\ (~Incomplete(tile) /\ is_key /\ ~bad_dim)
                 => /\ calc.out.ok
                    /\ calc.out.tile_size = tile.tile_size
                    /\ calc.out.tiles_per_box = Q(PresetsOf(fn)[tile.tile_size][1], 1)
                    /\ calc.out.coverage_per_box = Q(PresetsOf(fn)[tile.tile_size][2], 1)
              /\ (~Incomplete(tile) /\ ~is_key /\ ~bad_dim)
                 => /\ calc.out.ok
                    /\ calc.out.tile_size = "custom"
                    /\ calc.out.tiles_per_box = tile.tiles_per_box
                    /\ calc.out.coverage_per_box = tile.coverage_per_box
              /\ (Incomplete(tile) /\ ~is_key /\ bad_dim) => calc.out = InvalidTileSpec

\* C30 amended: a box-count entry point given both members of an explicit
\* pair uses the preset and returns its key when tile_size is a key of its
\* category's table, whatever the pair; when tile_size is no such key and no
\* member of the pair is zero it uses the pair and returns tile_size
\* 'custom'; either way a geometry entry point then fails with
\* InvalidDimension on a dimension that is not positive.  Tile arguments that
\* are no key and lack a member or have a zero one fail with InvalidTileSpec
\* also when a dimension is not positive: the tile arguments are resolved
\* first.
C30_PresetWinsAndTileSpecFirst ==
    \A fn \in BoxFns :
       Returned(fn)
       => LET tile    == calc.call.tile
              is_key  == tile.tile_size \in DOMAIN PresetsOf(fn)
              bad_dim == fn \in GeometryFns /\ NonPositive(calc.call)
          IN  /\ (~Incomplete(tile) /\ is_key)
                 => IF bad_dim THEN calc.out = InvalidDimension
                    ELSE /\ calc.out.ok
                         /\ calc.out.tile_size = tile.tile_size
                         /\ calc.out.tiles_per_box = Q(PresetsOf(fn)[tile.tile_size][1], 1)
                         /\ calc.out.coverage_per_box = Q(PresetsOf(fn)[tile.tile_size][2], 1)
              /\ (~Unusable(tile) /\ ~is_key)
                 => IF bad_dim THEN calc.out = InvalidDimension
                    ELSE /\ calc.out.ok
                         /\ calc.out.tile_size = "custom"
                         /\ calc.out.tiles_per_box = tile.tiles_per_box
                         /\ calc.out.coverage_per_box = tile.coverage_per_box
              /\ (Unusable(tile) /\ ~is_key /\ bad_dim) => calc.out = InvalidTileSpec

\* a floor of width 0 and tile arguments without a coverage was refused for
\* its tile arguments
C30_Witness ==
    /\ Returned("calculate_floor_boxes")
    /\ calc.call.width.n = 0
    /\ calc.call.tile.tile_size = "None"
    /\ calc.call.tile.tiles_per_box = Q(10, 1)
    /\ calc.call.tile.coverage_per_box = Missing
    /\ calc.out = InvalidTileSpec

====
